---------------------------- MODULE Spec2Model ----------------------------
(***************************************************************************)
(* wattsense: the anomaly-detection engine (backend/anomalyDetection.js)   *)
(* and the in-memory building store that feeds it (backend/server.js).     *)
(*                                                                         *)
(* Numbers.  The JavaScript works on doubles; the model works on exact     *)
(* rationals kept as integer numerator/denominator pairs, and every        *)
(* comparison of the code is cross-multiplied into integers:               *)
(*   - a mean is meanNum / meanDen;                                        *)
(*   - a standard deviation is sqrt(devNum / meanDen) / meanDen, where     *)
(*     devNum = SUM (meanDen * v - meanNum)^2 (the squared deviations of   *)
(*     calculateStats, scaled by meanDen^2);                               *)
(*   - an anomaly's expected value is expected.num / expected.den.         *)
(* A timestamp is an integer number of hours since the epoch (local time), *)
(* so getHours() is t % 24 and the calendar day is t \div 24.              *)
(* Fields that no computation reads (temperature, occupancy, the texts of  *)
(* description/title/action, the rounded percentageIncrease) are left out. *)
(***************************************************************************)
EXTENDS Integers, Sequences, FiniteSets, TLC

VARIABLES
    pc,               \* position of the engine call sequence
    dataGiven,        \* FALSE: detectAnomalies was called with null/undefined
    data,             \* the reading sequence handed to detectAnomalies
    anomaliesGiven,   \* FALSE: the anomaly list argument is null/undefined
    anomalies,        \* the anomaly list (detectAnomalies' result)
    recommendations,  \* generateRecommendations' result
    savings,          \* calculateSavings' result
    buildingData,     \* server.js: the in-memory store, buildingId -> record
    now               \* server.js: the wall clock read by new Date()

vars == <<pc, dataGiven, data, anomaliesGiven, anomalies, recommendations,
          savings, buildingData, now>>

----------------------------------------------------------------------------
(* Program constants *)

MinReadings == 7        \* detectAnomalies: data.length < 7
windowSize == 5         \* drift pass: 5-day window
MinHourSamples == 3     \* schedule pass: profile[hour].count < 3
HoursPerDay == 24       \* createHourlyProfile: hour < 24; allHoursAvg: / 24

----------------------------------------------------------------------------
(* Arithmetic of the code on exact rationals *)

\* new Date(timestamp).getHours()
Hour(t) == t % HoursPerDay

\* (num / den) * 100 > k, as IEEE doubles decide it: a zero divisor gives
\* +Infinity (num > 0), NaN (num = 0) or -Infinity (num < 0).
PctGT(num, den, k) ==
    IF den > 0 THEN 100 * num > k * den
    ELSE IF den < 0 THEN 100 * num < k * den
    ELSE num > 0

\* Math.round(n / d) for d > 0: the nearest integer, ties towards +Infinity.
MathRound(n, d) == (2 * n + d) \div (2 * d)

RECURSIVE SumSeq(_)
SumSeq(s) == IF s = <<>> THEN 0 ELSE Head(s) + SumSeq(Tail(s))

\* values.map(value => Math.pow(value - mean, 2)).reduce(+), times count^2
RECURSIVE SquaredDiffs(_, _, _)
SquaredDiffs(values, count, sum) ==
    IF values = <<>> THEN 0
    ELSE (count * Head(values) - sum) * (count * Head(values) - sum)
         + SquaredDiffs(Tail(values), count, sum)

\* calculateStats: mean and population standard deviation (min and max are
\* returned by the code and read nowhere).
calculateStats(values) ==
    LET count == Len(values)
        sum == SumSeq(values)
    IN  IF count = 0
        THEN [meanNum |-> 0, meanDen |-> 1, devNum |-> 0]
        ELSE [meanNum |-> sum, meanDen |-> count,
              devNum |-> SquaredDiffs(values, count, sum)]

\* c > stats.mean + (twiceK / 2) * stats.stdDev
AboveBand(c, stats, twiceK) ==
    LET x == c * stats.meanDen - stats.meanNum
    IN  /\ x > 0
        /\ 4 * stats.meanDen * x * x > twiceK * twiceK * stats.devNum

Consumptions(d) == [i \in 1..Len(d) |-> d[i].consumption]

\* data.filter(entry => entry.dayType === 'weekday') / 'weekend'
OfDayType(d, t) == SelectSeq(d, LAMBDA entry : entry.dayType = t)

\* dayType === 'weekday' ? weekdayStats : weekendStats
StatsFor(dayType, weekdayStats, weekendStats) ==
    IF dayType = "weekday" THEN weekdayStats ELSE weekendStats

----------------------------------------------------------------------------
(* detectAnomalies, pass 1: sudden spikes *)

SpikeEitherCondition(current, previous, stats) ==
    \/ PctGT(current.consumption - previous.consumption, previous.consumption, 30)
    \/ AboveBand(current.consumption, stats, 4)

\* percentageIncrease > 30 && current.consumption > stats.mean + 2 * stats.stdDev
IsSpike(current, previous, stats) ==
    /\ PctGT(current.consumption - previous.consumption, previous.consumption, 30)
    /\ AboveBand(current.consumption, stats, 4)

SpikeAnomalyExpectsCurrent(current, previous) ==
    [type |-> "spike",
     timestamp |-> current.timestamp,
     consumption |-> current.consumption,
     expected |-> [num |-> current.consumption, den |-> 1],
     severity |-> IF PctGT(current.consumption - previous.consumption,
                           previous.consumption, 50) THEN 3 ELSE 2]

SpikeAnomaly(current, previous) ==
    [type |-> "spike",
     timestamp |-> current.timestamp,
     consumption |-> current.consumption,
     expected |-> [num |-> previous.consumption, den |-> 1],
     severity |-> IF PctGT(current.consumption - previous.consumption,
                           previous.consumption, 50) THEN 3 ELSE 2]

RECURSIVE SpikePass(_, _, _, _)
SpikePass(d, weekdayStats, weekendStats, i) ==
    IF i > Len(d) THEN <<>>
    ELSE (IF IsSpike(d[i], d[i - 1],
                     StatsFor(d[i].dayType, weekdayStats, weekendStats))
          THEN <<SpikeAnomaly(d[i], d[i - 1])>>
          ELSE <<>>)
         \o SpikePass(d, weekdayStats, weekendStats, i + 1)

----------------------------------------------------------------------------
(* detectAnomalies, pass 2: gradual increases over a rolling window *)

IsIncreasingAllowEqual(window) ==
    \A j \in 2..Len(window) : ~(window[j].consumption < window[j - 1].consumption)

\* isIncreasing: no pair of the window has window[j] <= window[j - 1]
IsIncreasing(window) ==
    \A j \in 2..Len(window) : ~(window[j].consumption <= window[j - 1].consumption)

\* avgDailyIncrease = ((endVal - startVal) / startVal) * 100 / windowSize > k
AvgDailyIncreaseGT(window, k) ==
    PctGT(window[windowSize + 1].consumption - window[1].consumption,
          window[1].consumption * windowSize, k)

IsDrift(window, stats) ==
    /\ IsIncreasing(window)
    /\ AboveBand(window[windowSize + 1].consumption, stats, 3)
    /\ AvgDailyIncreaseGT(window, 3)

DriftAnomaly(window) ==
    [type |-> "drift",
     timestamp |-> window[windowSize + 1].timestamp,
     consumption |-> window[windowSize + 1].consumption,
     expected |-> [num |-> window[1].consumption, den |-> 1],
     severity |-> IF AvgDailyIncreaseGT(window, 5) THEN 2 ELSE 1]

\* data.slice(i - windowSize, i + 1), for the 1-based index i of the last reading
Window(d, i) == SubSeq(d, i - windowSize, i)

RECURSIVE DriftPass(_, _, _, _)
DriftPass(d, weekdayStats, weekendStats, i) ==
    IF i > Len(d) THEN <<>>
    ELSE (IF IsDrift(Window(d, i),
                     StatsFor(d[i].dayType, weekdayStats, weekendStats))
          THEN <<DriftAnomaly(Window(d, i))>>
          ELSE <<>>)
         \o DriftPass(d, weekdayStats, weekendStats, i + 1)

----------------------------------------------------------------------------
(* detectAnomalies, pass 3: off-hours usage against the hourly profile *)

\* createHourlyProfile: all 24 buckets, each with calculateStats of its values
createHourlyProfile(d) ==
    [hour \in 0..(HoursPerDay - 1) |->
        LET values == Consumptions(SelectSeq(d, LAMBDA entry : Hour(entry.timestamp) = hour))
            stats == calculateStats(values)
        IN  [meanNum |-> stats.meanNum, meanDen |-> stats.meanDen,
             devNum |-> stats.devNum, count |-> Len(values)]]

\* Object.values(profile).reduce((sum, h) => sum + h.mean, 0), as a fraction
RECURSIVE SumOfMeans(_, _)
SumOfMeans(profile, hour) ==
    IF hour = HoursPerDay THEN [num |-> 0, den |-> 1]
    ELSE LET rest == SumOfMeans(profile, hour + 1)
         IN  [num |-> profile[hour].meanNum * rest.den + rest.num * profile[hour].meanDen,
              den |-> profile[hour].meanDen * rest.den]

IsBusyHour(profile, hour) ==
    LET total == SumOfMeans(profile, 0)
    IN  10 * HoursPerDay * profile[hour].meanNum * total.den
            > 7 * total.num * profile[hour].meanDen

\* expected < 0.7 * allHoursAvg, allHoursAvg = (sum of the 24 means) / 24
IsLowUsageHour(profile, hour) ==
    LET total == SumOfMeans(profile, 0)
    IN  10 * HoursPerDay * profile[hour].meanNum * total.den
            < 7 * total.num * profile[hour].meanDen

\* !profile[hour] || profile[hour].count < 3
HasTooFewSamples(profile, hour) == profile[hour].count < MinHourSamples

IsScheduleAnomaly(entry, profile) ==
    LET hour == Hour(entry.timestamp)
    IN  /\ ~HasTooFewSamples(profile, hour)
        /\ AboveBand(entry.consumption, profile[hour], 5)
        /\ IsLowUsageHour(profile, hour)

ScheduleAnomaly(entry, profile) ==
    LET hour == Hour(entry.timestamp)
    IN  [type |-> "schedule",
         timestamp |-> entry.timestamp,
         consumption |-> entry.consumption,
         expected |-> [num |-> profile[hour].meanNum, den |-> profile[hour].meanDen],
         severity |-> IF PctGT(entry.consumption * profile[hour].meanDen
                                   - profile[hour].meanNum,
                               profile[hour].meanNum, 70) THEN 2 ELSE 1]

ProfileFor(dayType, weekdayHourlyProfile, weekendHourlyProfile) ==
    IF dayType = "weekday" THEN weekdayHourlyProfile ELSE weekendHourlyProfile

RECURSIVE SchedulePass(_, _, _, _)
SchedulePass(d, weekdayHourlyProfile, weekendHourlyProfile, i) ==
    IF i > Len(d) THEN <<>>
    ELSE LET profile == ProfileFor(d[i].dayType, weekdayHourlyProfile, weekendHourlyProfile)
         IN  (IF IsScheduleAnomaly(d[i], profile)
              THEN <<ScheduleAnomaly(d[i], profile)>>
              ELSE <<>>)
             \o SchedulePass(d, weekdayHourlyProfile, weekendHourlyProfile, i + 1)

----------------------------------------------------------------------------
(* detectAnomalies *)

HasTooFewReadingsOffByOne(given, d) == ~given \/ Len(d) < MinReadings - 1

\* !data || data.length < 7
HasTooFewReadings(given, d) == ~given \/ Len(d) < MinReadings

DriftBeforeSpike(spikes, drifts, schedules) == drifts \o spikes \o schedules

\* the three passes push onto one array, in this order
AllPasses(spikes, drifts, schedules) == spikes \o drifts \o schedules

detectAnomalies(given, d) ==
    IF HasTooFewReadings(given, d) THEN <<>>
    ELSE LET weekdayData == OfDayType(d, "weekday")
             weekendData == OfDayType(d, "weekend")
             weekdayStats == calculateStats(Consumptions(weekdayData))
             weekendStats == calculateStats(Consumptions(weekendData))
         IN  AllPasses(
                 SpikePass(d, weekdayStats, weekendStats, 2),
                 DriftPass(d, weekdayStats, weekendStats, windowSize + 1),
                 SchedulePass(d, createHourlyProfile(weekdayData),
                              createHourlyProfile(weekendData), 1))


----------------------------------------------------------------------------
(* generateRecommendations.                                                *)
(* A recommendation keeps anomalyType, urgency and the dollar figure of    *)
(* impact; of the description it keeps what identifies the anomaly it is   *)
(* about: the picked anomaly's date, or the hour and count of the schedule *)
(* group.  The id (a prefix and Date.now()) is left out.                   *)

\* anomalies.filter(a => a.type === t): a new array
OfType(anoms, t) == SelectSeq(anoms, LAMBDA a : a.type = t)

BySeverityAscending(a, b) == a.severity - b.severity

\* (a, b) => b.severity - a.severity
BySeverityDescending(a, b) == b.severity - a.severity

\* (a, b) => new Date(b.timestamp) - new Date(a.timestamp)
ByTimestampDescending(a, b) == b.timestamp - a.timestamp

\* (a, b) => new Date(a.timestamp) - new Date(b.timestamp)
ByTimestampAscending(a, b) == a.timestamp - b.timestamp

\* the compare function handed to sort, named by its order
Compare(order, a, b) ==
    CASE order = "severity descending" -> BySeverityDescending(a, b)
      [] order = "timestamp descending" -> ByTimestampDescending(a, b)
      [] order = "timestamp ascending" -> ByTimestampAscending(a, b)

\* Array.prototype.sort(compare): a stable sort, x is placed after the
\* elements that do not compare greater than it
InsertSorted(sorted, x, order) ==
    LET p == Cardinality({j \in 1..Len(sorted) : Compare(order, sorted[j], x) <= 0})
    IN  SubSeq(sorted, 1, p) \o <<x>> \o SubSeq(sorted, p + 1, Len(sorted))

StableSort(s, order) ==
    LET sorted[k \in 0..Len(s)] ==
            IF k = 0 THEN <<>> ELSE InsertSorted(sorted[k - 1], s[k], order)
    IN  sorted[Len(s)]

\* anomaly.consumption - anomaly.expected, as a fraction
Excess(a) ==
    [num |-> a.consumption * a.expected.den - a.expected.num, den |-> a.expected.den]

\* Math.round((a.consumption - a.expected) * 30 * 0.15)
MonthlyImpact(a) == MathRound(9 * Excess(a).num, 2 * Excess(a).den)

ClampedExcessSum(sum, a) ==
    IF Excess(a).num < 0 THEN sum
    ELSE [num |-> sum.num * Excess(a).den + Excess(a).num * sum.den,
          den |-> sum.den * Excess(a).den]

\* sum + (anomaly.consumption - anomaly.expected)
AddExcess(sum, a) ==
    [num |-> sum.num * Excess(a).den + Excess(a).num * sum.den,
     den |-> sum.den * Excess(a).den]

\* anoms.reduce((sum, a) => sum + (a.consumption - a.expected), 0)
TotalExcess(anoms) ==
    LET acc[k \in 0..Len(anoms)] ==
            IF k = 0 THEN [num |-> 0, den |-> 1] ELSE AddExcess(acc[k - 1], anoms[k])
    IN  acc[Len(anoms)]

SpikeRecommendation(worstSpike) ==
    [anomalyType |-> "spike",
     date |-> worstSpike.timestamp,
     impact |-> MonthlyImpact(worstSpike),
     urgency |-> IF worstSpike.severity = 3
                 THEN "High - Immediate attention recommended"
                 ELSE "Medium - Address within 1 week"]

DriftRecommendation(mostRecent) ==
    [anomalyType |-> "drift",
     date |-> mostRecent.timestamp,
     impact |-> MonthlyImpact(mostRecent),
     urgency |-> IF mostRecent.severity = 2
                 THEN "Medium - Address within 1-2 weeks"
                 ELSE "Low - Schedule during next maintenance"]

\* hourGroups[hour]: the schedule anomalies of that hour, in input order
HourGroup(scheduleAnomalies, hour) ==
    SelectSeq(scheduleAnomalies, LAMBDA a : Hour(a.timestamp) = hour)

ReplacesWorstOnTie(count, maxCount) == count >= maxCount

\* if (anomalies.length > maxCount)
ReplacesWorst(count, maxCount) == count > maxCount

\* Object.entries(hourGroups).forEach(...): the keys of hourGroups are integer
\* keys, which Object.entries enumerates in ascending numeric order; an hour
\* without a group is no key
RECURSIVE WorstHourScan(_, _, _)
WorstHourScan(scheduleAnomalies, hour, worst) ==
    IF hour = HoursPerDay THEN worst
    ELSE LET count == Len(HourGroup(scheduleAnomalies, hour))
         IN  WorstHourScan(scheduleAnomalies, hour + 1,
                 IF count > 0 /\ ReplacesWorst(count, worst.maxCount)
                 THEN [worstHour |-> hour, maxCount |-> count]
                 ELSE worst)

\* Math.round(averageExcess * maxCount * 4 * 0.15), averageExcess being the
\* group's total excess divided by its length, which is maxCount
ScheduleImpact(group) ==
    MathRound(6 * TotalExcess(group).num, 10 * TotalExcess(group).den)

ScheduleRecommendations(scheduleAnomalies) ==
    LET worst == WorstHourScan(scheduleAnomalies, 0, [worstHour |-> 0, maxCount |-> 0])
    IN  IF worst.maxCount > 0
        THEN <<[anomalyType |-> "schedule",
                hour |-> worst.worstHour,
                count |-> worst.maxCount,
                impact |-> ScheduleImpact(HourGroup(scheduleAnomalies, worst.worstHour)),
                urgency |-> IF worst.maxCount > 3
                            THEN "Medium - Investigate within 2 weeks"
                            ELSE "Low - Investigate during next maintenance cycle"]>>
        ELSE <<>>

MoreThanOne(list) == Len(list) > 1

\* if (spikeAnomalies.length > 0), and the same for drift and schedule
NonEmpty(list) == Len(list) > 0

generateRecommendations(given, anoms) ==
    IF ~given \/ Len(anoms) = 0 THEN <<>>
    ELSE LET spikeAnomalies == OfType(anoms, "spike")
             driftAnomalies == OfType(anoms, "drift")
             scheduleAnomalies == OfType(anoms, "schedule")
         IN  (IF NonEmpty(spikeAnomalies)
              THEN <<SpikeRecommendation(
                        StableSort(spikeAnomalies, "severity descending")[1])>>
              ELSE <<>>)
             \o (IF NonEmpty(driftAnomalies)
                 THEN <<DriftRecommendation(
                           StableSort(driftAnomalies, "timestamp descending")[1])>>
                 ELSE <<>>)
             \o (IF NonEmpty(scheduleAnomalies)
                 THEN ScheduleRecommendations(scheduleAnomalies)
                 ELSE <<>>)

----------------------------------------------------------------------------
(* calculateSavings: energy and carbon in tenths (of a kWh, of a kg CO2),  *)
(* cost in hundredths of a dollar, so that the rounded figures are         *)
(* integers: energy = Math.round(total * 10), read as a count of tenths.   *)

NoSavings == [energy |-> 0, cost |-> 0, carbon |-> 0]

calculateSavings(given, anoms) ==
    IF ~given \/ Len(anoms) = 0 THEN NoSavings
    ELSE LET totalExcessEnergy == TotalExcess(anoms)
         IN  [energy |-> MathRound(10 * totalExcessEnergy.num, totalExcessEnergy.den),
              cost |-> MathRound(15 * totalExcessEnergy.num, totalExcessEnergy.den),
              carbon |-> MathRound(4 * totalExcessEnergy.num, totalExcessEnergy.den)]

----------------------------------------------------------------------------
(* Reading sequences handed to detectAnomalies.                            *)
(* One reading per calendar day, so timestamps are strictly ascending and  *)
(* identify the reading.  Two families:                                    *)
(*  - trend sequences: a start value followed by day-to-day steps, read at *)
(*    02:00, all weekday or with the first reading on a weekend;           *)
(*  - schedule sequences: low/high loads read at 02:00 with at most one    *)
(*    peak reading at 09:00, long enough for an hourly bucket to hold an   *)
(*    outlier beyond 2.5 standard deviations.                              *)

MaxLen == 7          \* longest trend sequence
MaxSchedLen == 11    \* longest schedule sequence

Starts == {10, 20, 34}
StepsFrom(start) == IF start = 10 THEN {-5, 0, 1, 6} ELSE {0, 1}

RECURSIVE PrefixSum(_, _)
PrefixSum(steps, k) == IF k = 0 THEN 0 ELSE steps[k] + PrefixSum(steps, k - 1)

TrendData(start, steps, weekendAt) ==
    [i \in 1..(Len(steps) + 1) |->
        [timestamp |-> HoursPerDay * (i - 1) + 2,
         consumption |-> start + PrefixSum(steps, i - 1),
         dayType |-> IF i = weekendAt THEN "weekend" ELSE "weekday"]]

ScheduleData(loads, peakAt) ==
    [i \in 1..Len(loads) |->
        IF i = peakAt
        THEN [timestamp |-> HoursPerDay * (i - 1) + 9, consumption |-> 100,
              dayType |-> "weekday"]
        ELSE [timestamp |-> HoursPerDay * (i - 1) + 2, consumption |-> loads[i],
              dayType |-> "weekday"]]

\* the reading sequences of the two families, and the empty sequence
IsDetectInput(d) ==
    \/ d = <<>>
    \/ \E n \in 1..MaxLen, start \in Starts, weekendAt \in {0, 1} :
           \E steps \in [1..(n - 1) -> StepsFrom(start)] :
               d = TrendData(start, steps, weekendAt)
    \/ \E n \in (MaxSchedLen - 1)..MaxSchedLen :
           \E loads \in [1..n -> {1, 10}], peakAt \in {0, 1, n} :
               d = ScheduleData(loads, peakAt)

----------------------------------------------------------------------------
(* server.js: the building store and the two handlers that write it.       *)
(* name, location and area are stored and read by no computation; a        *)
(* registered building is one whose key is in buildingData.  The GET       *)
(* handlers read the store and change nothing.                             *)

BuildingIds == {"b1", "b2"}

NoBuilding == [registered |-> FALSE, energyData |-> <<>>, anomalies |-> <<>>,
               lastUpdated |-> 0]

\* getDayType: date.getDay() is 0 on Sunday and 6 on Saturday; day 0 of the
\* epoch is a Thursday
getDayType(t) ==
    IF ((t \div HoursPerDay) + 4) % 7 \in {0, 6} THEN "weekend" ELSE "weekday"

\* data.map(entry => ({...})): a missing (falsy) timestamp becomes the
\* current time, a missing dayType is derived from the timestamp
ProcessEntry(entry, clock) ==
    LET timestamp == IF entry.timestamp = 0 THEN clock ELSE entry.timestamp
    IN  [timestamp |-> timestamp,
         consumption |-> entry.consumption,
         dayType |-> IF entry.dayType = "" THEN getDayType(timestamp) ELSE entry.dayType]

KeepArrivalOrder(list) == list

\* [...energyData, ...processedData].sort(by timestamp)
SortByTimestamp(list) == StableSort(list, "timestamp ascending")

\* POST /api/buildings: 400 without a buildingId or a name, else the record
\* is (re)created with no readings
RegisterBuilding(buildingId, nameGiven) ==
    /\ IF buildingId = "" \/ ~nameGiven
       THEN UNCHANGED buildingData
       ELSE buildingData' =
                [buildingData EXCEPT ![buildingId] =
                    [registered |-> TRUE, energyData |-> <<>>, anomalies |-> <<>>,
                     lastUpdated |-> now]]
    /\ UNCHANGED <<pc, dataGiven, data, anomaliesGiven, anomalies, recommendations,
                   savings, now>>

\* POST /api/energy-data/:buildingId: 400 without a data array, 404 for an
\* unknown building; else the batch is processed, merged and sorted, the
\* anomalies are detected and stored, and the recommendations and savings
\* are returned
PostEnergyData(buildingId, bodyGiven, body) ==
    IF ~bodyGiven \/ ~buildingData[buildingId].registered
    THEN UNCHANGED vars
    ELSE LET processedData == [i \in 1..Len(body) |-> ProcessEntry(body[i], now)]
             energyData == SortByTimestamp(
                               buildingData[buildingId].energyData \o processedData)
             detectedAnomalies == detectAnomalies(TRUE, energyData)
         IN  /\ buildingData' =
                    [buildingData EXCEPT ![buildingId] =
                        [registered |-> TRUE, energyData |-> energyData,
                         anomalies |-> detectedAnomalies, lastUpdated |-> now]]
             /\ recommendations' = generateRecommendations(TRUE, detectedAnomalies)
             /\ savings' = calculateSavings(TRUE, detectedAnomalies)
             /\ UNCHANGED <<pc, dataGiven, data, anomaliesGiven, anomalies, now>>

----------------------------------------------------------------------------
(* Specification SpecDetect: detectAnomalies applied to a reading sequence *)

InitDetect ==
    /\ pc = "input"
    /\ dataGiven \in BOOLEAN
    /\ IF dataGiven THEN IsDetectInput(data) ELSE data = <<>>
    /\ anomaliesGiven = TRUE
    /\ anomalies = <<>>
    /\ recommendations = <<>>
    /\ savings = NoSavings
    /\ buildingData = [b \in BuildingIds |-> NoBuilding]
    /\ now = 0

Detect ==
    /\ pc = "input"
    /\ anomalies' = detectAnomalies(dataGiven, data)
    /\ pc' = "detected"
    /\ UNCHANGED <<dataGiven, data, anomaliesGiven, recommendations, savings,
                   buildingData, now>>

NextDetect == Detect

SpecDetect == InitDetect /\ [][NextDetect]_vars

----------------------------------------------------------------------------
(* Properties of detectAnomalies.                                          *)
(* The expected flags are computed here from the reading sequence itself,  *)
(* by index sets and the textbook variance n*SUM(c^2) - (SUM c)^2, not by  *)
(* the passes above.                                                       *)

Detected == pc = "detected" /\ dataGiven

AllPositive == \A i \in 1..Len(data) : data[i].consumption > 0

RECURSIVE SumC(_)
SumC(I) ==
    IF I = {} THEN 0
    ELSE LET j == CHOOSE j \in I : TRUE IN data[j].consumption + SumC(I \ {j})

RECURSIVE SumC2(_)
SumC2(I) ==
    IF I = {} THEN 0
    ELSE LET j == CHOOSE j \in I : TRUE
         IN  data[j].consumption * data[j].consumption + SumC2(I \ {j})

\* c > mean + (twiceK / 2) * stdDev over the readings with index in I
ExceedsBaseline(c, I, twiceK) ==
    LET n == Cardinality(I)
        x == n * c - SumC(I)
    IN  /\ x > 0
        /\ 4 * x * x > twiceK * twiceK * (n * SumC2(I) - SumC(I) * SumC(I))

\* the readings of reading i's dayType: its baseline
SameDayType(i) == {j \in 1..Len(data) : data[j].dayType = data[i].dayType}

\* the readings of reading i's dayType that fall in hour h
InHour(i, h) == {j \in SameDayType(i) : Hour(data[j].timestamp) = h}

Bucket(i) == InHour(i, Hour(data[i].timestamp))

EntriesFor(i, t) ==
    {k \in 1..Len(anomalies) :
        anomalies[k].type = t /\ anomalies[k].timestamp = data[i].timestamp}

\* (c[i] - c[i-1]) / c[i-1] * 100 > k, for a positive c[i-1]
JumpGT(i, k) ==
    100 * (data[i].consumption - data[i - 1].consumption) > k * data[i - 1].consumption

SpikeExpected(i) ==
    /\ i >= 2
    /\ JumpGT(i, 30)
    /\ ExceedsBaseline(data[i].consumption, SameDayType(i), 4)

StrictlyIncreasingWindow(i) ==
    \A j \in (i - 4)..i : data[j].consumption > data[j - 1].consumption

\* (last - first) / first * 100 / 5 > k, for a nonzero first
RateGT(i, k) ==
    LET first == data[i - 5].consumption
        last == data[i].consumption
    IN  IF first > 0 THEN 20 * (last - first) > k * first
        ELSE 20 * (last - first) < k * first

DriftExpected(i) ==
    /\ i >= 6
    /\ StrictlyIncreasingWindow(i)
    /\ RateGT(i, 3)
    /\ ExceedsBaseline(data[i].consumption, SameDayType(i), 3)

\* the hours of the day in which reading i's dayType has samples
HoursOf(i) == {Hour(data[j].timestamp) : j \in SameDayType(i)}

RECURSIVE CountProduct(_, _)
CountProduct(i, H) ==
    IF H = {} THEN 1
    ELSE LET h == CHOOSE h \in H : TRUE
         IN  Cardinality(InHour(i, h)) * CountProduct(i, H \ {h})

\* the sum of the hourly means over the hours H, times the common
\* denominator p = CountProduct(i, HoursOf(i))
RECURSIVE ScaledMeanSum(_, _, _)
ScaledMeanSum(i, H, p) ==
    IF H = {} THEN 0
    ELSE LET h == CHOOSE h \in H : TRUE
         IN  SumC(InHour(i, h)) * (p \div Cardinality(InHour(i, h)))
             + ScaledMeanSum(i, H \ {h}, p)

\* the mean of reading i's hour is >= 0.7 * (sum of the 24 hourly means / 24),
\* an hour without samples having mean 0
HourMeanAtLeast70Percent(i) ==
    LET p == CountProduct(i, HoursOf(i))
    IN  240 * SumC(Bucket(i)) * p
            >= 7 * ScaledMeanSum(i, HoursOf(i), p) * Cardinality(Bucket(i))

ScheduleExpected(i) ==
    /\ Cardinality(Bucket(i)) >= 3
    /\ ExceedsBaseline(data[i].consumption, Bucket(i), 5)
    /\ ~HourMeanAtLeast70Percent(i)

\* C1: a reading sequence shorter than 7, or a missing one, gives an empty
\* anomaly list, whatever its readings are.
C1_ShortSequenceNoAnomalies ==
    (pc = "detected" /\ (~dataGiven \/ Len(data) < 7)) => anomalies = <<>>

\* a 6-reading sequence whose last reading meets both spike conditions
C1_Witness ==
    /\ Detected /\ Len(data) = 6 /\ AllPositive
    /\ SpikeExpected(6)

\* C2: on 7 or more readings with positive consumptions, reading i gets a
\* spike anomaly exactly when the jump from reading i-1 is above 30 percent
\* and its consumption is above mean + 2 stdDev of its dayType's baseline;
\* the spike has severity 3 above 50 percent, otherwise 2, and expected is
\* the previous consumption.
C2_SpikeNeedsBothConditions ==
    (Detected /\ Len(data) >= 7 /\ AllPositive) =>
        \A i \in 1..Len(data) :
            /\ (EntriesFor(i, "spike") # {}) <=> SpikeExpected(i)
            /\ \A k \in EntriesFor(i, "spike") :
                   /\ anomalies[k].severity = (IF JumpGT(i, 50) THEN 3 ELSE 2)
                   /\ anomalies[k].expected = [num |-> data[i - 1].consumption, den |-> 1]
                   /\ anomalies[k].consumption = data[i].consumption

\* a sequence with a flagged reading and a reading that meets exactly one
\* of the two conditions and is not flagged
C2_Witness ==
    /\ Detected /\ Len(data) >= 7 /\ AllPositive
    /\ \E i \in 2..Len(data) : SpikeExpected(i) /\ EntriesFor(i, "spike") # {}
    /\ \E i \in 2..Len(data) :
           /\ JumpGT(i, 30) # ExceedsBaseline(data[i].consumption, SameDayType(i), 4)
           /\ EntriesFor(i, "spike") = {}

\* C3: on 7 or more readings, a drift anomaly is emitted for the window
\* ending at reading i only if all 5 consecutive pairs of the window are
\* strictly increasing; for a strictly increasing window (with a nonzero
\* first consumption, so that the rate is defined) it is emitted exactly
\* when the average daily increase is above 3 and the last consumption is
\* above mean + 1.5 stdDev of the baseline, with severity 2 above 5,
\* otherwise 1, and expected the window's first consumption.
C3_DriftNeedsStrictIncrease ==
    (Detected /\ Len(data) >= 7) =>
        \A i \in 1..Len(data) :
            /\ (EntriesFor(i, "drift") # {}) => (i >= 6 /\ StrictlyIncreasingWindow(i))
            /\ (i >= 6 /\ StrictlyIncreasingWindow(i) /\ data[i - 5].consumption # 0) =>
                   /\ (EntriesFor(i, "drift") # {}) <=> DriftExpected(i)
                   /\ \A k \in EntriesFor(i, "drift") :
                          /\ anomalies[k].severity = (IF RateGT(i, 5) THEN 2 ELSE 1)
                          /\ anomalies[k].expected = [num |-> data[i - 5].consumption, den |-> 1]
                          /\ anomalies[k].consumption = data[i].consumption

\* a window with exactly one non-increasing pair whose rate and band
\* conditions hold, and no drift anomaly for it
C3_Witness ==
    /\ Detected /\ Len(data) >= 7
    /\ \E i \in 6..Len(data) :
           /\ Cardinality({j \in (i - 4)..i :
                               data[j].consumption <= data[j - 1].consumption}) = 1
           /\ data[i - 5].consumption > 0
           /\ RateGT(i, 3)
           /\ ExceedsBaseline(data[i].consumption, SameDayType(i), 3)
           /\ EntriesFor(i, "drift") = {}

\* C4: no schedule anomaly is emitted for a reading whose hour bucket (in
\* its dayType's profile) has fewer than 3 samples, nor for one whose hour's
\* mean is at least 0.7 times the average of the 24 hourly means, even when
\* the reading is above that hour's mean + 2.5 stdDev.
C4_ScheduleOnlyLowUsageHours ==
    Detected =>
        \A i \in 1..Len(data) :
            \/ EntriesFor(i, "schedule") = {}
            \/ ~(Cardinality(Bucket(i)) < 3 \/ HourMeanAtLeast70Percent(i))

\* a reading above its hour's mean + 2.5 stdDev in an hour that is not a
\* low-usage hour
C4_Witness ==
    /\ Detected /\ Len(data) >= 7
    /\ \E i \in 1..Len(data) :
           /\ ExceedsBaseline(data[i].consumption, Bucket(i), 5)
           /\ HourMeanAtLeast70Percent(i)
           /\ EntriesFor(i, "schedule") = {}

TypeRank(t) == IF t = "spike" THEN 1 ELSE IF t = "drift" THEN 2 ELSE 3

ReadingIndex(a) == CHOOSE i \in 1..Len(data) : data[i].timestamp = a.timestamp

FlagCount(i) ==
    (IF SpikeExpected(i) THEN 1 ELSE 0) + (IF DriftExpected(i) THEN 1 ELSE 0)
        + (IF ScheduleExpected(i) THEN 1 ELSE 0)

\* C5: in the returned list spikes precede drifts and drifts precede
\* schedule anomalies, within a type the entries follow the input order of
\* their readings, and (on 7 or more positive readings) a reading that meets
\* the flag condition of k passes has exactly k entries.
C5_PassOrderNoDeduplication ==
    Detected =>
        /\ \A k \in 1..Len(anomalies) :
               \E i \in 1..Len(data) : data[i].timestamp = anomalies[k].timestamp
        /\ \A k, m \in 1..Len(anomalies) :
               k < m =>
                   /\ TypeRank(anomalies[k].type) <= TypeRank(anomalies[m].type)
                   /\ anomalies[k].type = anomalies[m].type
                          => ReadingIndex(anomalies[k]) < ReadingIndex(anomalies[m])
        /\ (Len(data) >= 7 /\ AllPositive) =>
               \A i \in 1..Len(data) :
                   Cardinality({k \in 1..Len(anomalies) :
                                   anomalies[k].timestamp = data[i].timestamp})
                       = FlagCount(i)

\* a reading flagged by two passes, hence with two entries
C5_Witness ==
    /\ Detected /\ Len(data) >= 7 /\ AllPositive
    /\ \E i \in 1..Len(data) : FlagCount(i) = 2

----------------------------------------------------------------------------
(* Specification SpecInsight: generateRecommendations and calculateSavings *)
(* applied to an anomaly list, in the order the ingestion handler calls    *)
(* them.  The lists are all sequences of up to MaxAnoms anomalies of a     *)
(* pool: each type at 14:00 of day 0 and at 03:00 of day 1, once with the  *)
(* type's higher severity and an excess of 6, once with the lower severity *)
(* and an excess of -1.75.                                                 *)

MaxAnoms == 3       \* longest anomaly list

AnomalyPool ==
    {[type |-> t, timestamp |-> ts, consumption |-> 10,
      expected |-> [num |-> 4, den |-> 1],
      severity |-> IF t = "spike" THEN 3 ELSE 2] :
        t \in {"spike", "drift", "schedule"}, ts \in {14, 27}}
    \cup
    {[type |-> t, timestamp |-> ts, consumption |-> 5,
      expected |-> [num |-> 27, den |-> 4],
      severity |-> IF t = "spike" THEN 2 ELSE 1] :
        t \in {"spike", "drift", "schedule"}, ts \in {14, 27}}

InitInsight ==
    /\ pc = "detected"
    /\ dataGiven = TRUE
    /\ data = <<>>
    /\ anomaliesGiven \in BOOLEAN
    /\ IF anomaliesGiven
       THEN \E n \in 0..MaxAnoms : \E list \in [1..n -> AnomalyPool] : anomalies = list
       ELSE anomalies = <<>>
    /\ recommendations = <<>>
    /\ savings = NoSavings
    /\ buildingData = [b \in BuildingIds |-> NoBuilding]
    /\ now = 0

Recommend ==
    /\ pc = "detected"
    /\ recommendations' = generateRecommendations(anomaliesGiven, anomalies)
    /\ pc' = "recommended"
    /\ UNCHANGED <<dataGiven, data, anomaliesGiven, anomalies, savings,
                   buildingData, now>>

Savings ==
    /\ pc = "recommended"
    /\ savings' = calculateSavings(anomaliesGiven, anomalies)
    /\ pc' = "done"
    /\ UNCHANGED <<dataGiven, data, anomaliesGiven, anomalies, recommendations,
                   buildingData, now>>

NextInsight == Recommend \/ Savings

SpecInsight == InitInsight /\ [][NextInsight]_vars

----------------------------------------------------------------------------
(* Properties of calculateSavings and generateRecommendations, computed    *)
(* from the anomaly list by index sets over a common denominator.          *)

HasList == anomaliesGiven /\ anomalies # <<>>

Recommended == pc \in {"recommended", "done"}

WithType(t) == {k \in 1..Len(anomalies) : anomalies[k].type = t}

RecsOfType(t) == {r \in 1..Len(recommendations) : recommendations[r].anomalyType = t}

\* a common denominator of the expected values of the anomalies in I
RECURSIVE DenProduct(_)
DenProduct(I) ==
    IF I = {} THEN 1
    ELSE LET k == CHOOSE k \in I : TRUE
         IN  anomalies[k].expected.den * DenProduct(I \ {k})

\* l times the sum of (consumption - expected) over the anomalies in I
RECURSIVE ScaledExcess(_, _)
ScaledExcess(I, l) ==
    IF I = {} THEN 0
    ELSE LET k == CHOOSE k \in I : TRUE
         IN  anomalies[k].consumption * l
             - anomalies[k].expected.num * (l \div anomalies[k].expected.den)
             + ScaledExcess(I \ {k}, l)

\* r is n / d rounded to the nearest integer, a tie going up (Math.round)
IsRounded(r, n, d) == (2 * r - 1) * d <= 2 * n /\ 2 * n < (2 * r + 1) * d

\* C6: energy, cost and carbon are the unclamped sum of consumption -
\* expected, times 1, 0.15 and 0.4, rounded to 1, 2 and 1 decimals; all
\* three are 0 for an empty or missing list.
C6_SavingsFromUnclampedExcess ==
    pc = "done" =>
        IF HasList
        THEN LET all == 1..Len(anomalies)
                 l == DenProduct(all)
                 excess == ScaledExcess(all, l)
             IN  /\ IsRounded(savings.energy, 10 * excess, l)
                 /\ IsRounded(savings.cost, 15 * excess, l)
                 /\ IsRounded(savings.carbon, 4 * excess, l)
        ELSE savings = [energy |-> 0, cost |-> 0, carbon |-> 0]

\* a list with a negative and a positive term, whose energy falls on a
\* rounding tie (6 - 1.75 = 4.25)
C6_Witness ==
    /\ pc = "done" /\ HasList /\ Len(anomalies) = 2
    /\ \E k \in 1..Len(anomalies) : ScaledExcess({k}, 4) < 0
    /\ \E k \in 1..Len(anomalies) : ScaledExcess({k}, 4) > 0
    /\ savings.energy = 43

\* C7: at most three recommendations, at most one per anomalyType, one of
\* type T exactly when the list holds an anomaly of type T; none for an
\* empty or missing list.
C7_OneRecommendationPerPresentType ==
    Recommended =>
        /\ Len(recommendations) <= 3
        /\ \A t \in {"spike", "drift", "schedule"} :
               /\ Cardinality(RecsOfType(t)) <= 1
               /\ (RecsOfType(t) # {}) <=> (anomaliesGiven /\ WithType(t) # {})
        /\ \A r \in 1..Len(recommendations) :
               recommendations[r].anomalyType \in {"spike", "drift", "schedule"}
        /\ ~HasList => recommendations = <<>>

\* two spikes and a schedule anomaly, no drift: two recommendations
C7_Witness ==
    /\ Recommended /\ HasList
    /\ Cardinality(WithType("spike")) = 2
    /\ Cardinality(WithType("schedule")) = 1
    /\ Len(recommendations) = 2

ScheduleAtHour(h) == {k \in WithType("schedule") : Hour(anomalies[k].timestamp) = h}

ScheduleHours == {Hour(anomalies[k].timestamp) : k \in WithType("schedule")}

MaxHours ==
    {h \in ScheduleHours :
        \A g \in ScheduleHours : Cardinality(ScheduleAtHour(g)) <= Cardinality(ScheduleAtHour(h))}

FirstSeenAt(h) == CHOOSE k \in ScheduleAtHour(h) : \A m \in ScheduleAtHour(h) : k <= m

\* the hour with the maximum count that occurs first in the anomaly list
FirstSeenMaxHour == CHOOSE h \in MaxHours : \A g \in MaxHours : FirstSeenAt(h) <= FirstSeenAt(g)

\* the numerically smallest hour with the maximum count
SmallestMaxHour == CHOOSE h \in MaxHours : \A g \in MaxHours : h <= g

ScheduleRecIsForHour(rec, h) ==
    /\ rec.hour = h
    /\ rec.count = Cardinality(ScheduleAtHour(h))
    /\ IsRounded(rec.impact,
                 6 * ScaledExcess(ScheduleAtHour(h), DenProduct(ScheduleAtHour(h))),
                 10 * DenProduct(ScheduleAtHour(h)))

\* C8 as stated: the schedule recommendation is for the hour with the most
\* schedule anomalies, a tie going to the hour seen first in the list.
C8_FirstSeenHourWins ==
    (Recommended /\ HasList) =>
        \A r \in RecsOfType("schedule") :
            ScheduleRecIsForHour(recommendations[r], FirstSeenMaxHour)

\* C8 amended: the schedule recommendation is for the hour with the most
\* schedule anomalies, a tie going to the numerically smallest hour; its
\* count and impact are those of that hour.
C8_SmallestHourWins ==
    (Recommended /\ HasList) =>
        \A r \in RecsOfType("schedule") :
            ScheduleRecIsForHour(recommendations[r], SmallestMaxHour)

\* two hours tie and the hour seen first is not the smallest one
C8_Witness ==
    /\ Recommended /\ HasList
    /\ Cardinality(MaxHours) = 2
    /\ FirstSeenMaxHour # SmallestMaxHour
    /\ RecsOfType("schedule") # {}

\* the first spike of the list among those with the highest severity
FirstWorstSpike ==
    CHOOSE k \in WithType("spike") :
        /\ \A m \in WithType("spike") : anomalies[m].severity <= anomalies[k].severity
        /\ \A m \in WithType("spike") :
               anomalies[m].severity = anomalies[k].severity => k <= m

SpikeRecIsFor(rec, a) ==
    /\ rec.date = a.timestamp
    /\ (rec.urgency = "High - Immediate attention recommended") <=> (a.severity = 3)
    /\ (rec.urgency = "Medium - Address within 1 week") <=> (a.severity # 3)
    /\ IsRounded(rec.impact,
                 9 * (a.consumption * a.expected.den - a.expected.num),
                 2 * a.expected.den)

\* C9: the spike recommendation is about the spike with the highest
\* severity, the first of the list among equals; its urgency is High exactly
\* for severity 3, otherwise Medium, its impact round((consumption -
\* expected) * 30 * 0.15); and no step changes the anomaly list.
C9_WorstSpikeFirstOccurrence ==
    /\ []((Recommended /\ HasList) =>
              \A r \in RecsOfType("spike") :
                  SpikeRecIsFor(recommendations[r], anomalies[FirstWorstSpike]))
    /\ [][anomalies' = anomalies]_vars

\* a lower spike first, then two spikes of the highest severity on different
\* dates
C9_Witness ==
    /\ Recommended /\ HasList /\ Len(anomalies) = 3
    /\ \A k \in 1..3 : anomalies[k].type = "spike"
    /\ anomalies[1].severity = 2 /\ anomalies[2].severity = 3 /\ anomalies[3].severity = 3
    /\ anomalies[2].timestamp # anomalies[3].timestamp
    /\ \E r \in RecsOfType("spike") : recommendations[r].date = anomalies[2].timestamp

----------------------------------------------------------------------------
(* Specification SpecServer: registrations and ingestions in any order.    *)
(* Requests carry batches of up to MaxBatch entries whose timestamps are    *)
(* hour 30, hour 80 or missing, in any order; the clock starts at hour 50   *)
(* and ticks up to MaxTicks times; the store holds up to MaxStored readings *)
(* in all.                                                                  *)

MaxBatch == 2       \* longest batch of one request
MaxStored == 3      \* readings stored over all buildings
MaxTicks == 1       \* ticks of the clock

Entries ==
    {[timestamp |-> t, consumption |-> c, dayType |-> ""] : t \in {0, 30, 80}, c \in {5, 7}}

Stored == LET b1 == Len(buildingData["b1"].energyData)
              b2 == Len(buildingData["b2"].energyData)
          IN  b1 + b2

InitServer ==
    /\ pc = "serving"
    /\ dataGiven = TRUE
    /\ data = <<>>
    /\ anomaliesGiven = TRUE
    /\ anomalies = <<>>
    /\ recommendations = <<>>
    /\ savings = NoSavings
    /\ buildingData = [b \in BuildingIds |-> NoBuilding]
    /\ now = 50

Register == \E buildingId \in BuildingIds \cup {""}, nameGiven \in BOOLEAN :
                RegisterBuilding(buildingId, nameGiven)

Ingest == \E buildingId \in BuildingIds, bodyGiven \in BOOLEAN, n \in 0..MaxBatch :
              \E body \in [1..n -> Entries] :
                  /\ Stored + n <= MaxStored
                  /\ PostEnergyData(buildingId, bodyGiven, body)

Tick == /\ now < 50 + MaxTicks
        /\ now' = now + 1
        /\ UNCHANGED <<pc, dataGiven, data, anomaliesGiven, anomalies, recommendations,
                       savings, buildingData>>

NextServer == Register \/ Ingest \/ Tick

SpecServer == InitServer /\ [][NextServer]_vars

\* C10: after any registrations and ingestions, every building's stored
\* reading sequence is sorted ascending by timestamp.
C10_StoredReadingsSorted ==
    \A b \in BuildingIds :
        \A i, j \in 1..Len(buildingData[b].energyData) :
            i < j => buildingData[b].energyData[i].timestamp
                         <= buildingData[b].energyData[j].timestamp

\* a building holding a reading stamped by the clock between two readings
\* with client timestamps, while the other building holds readings too
C10_Witness ==
    /\ Len(buildingData["b1"].energyData) = 3
    /\ buildingData["b1"].energyData[1].timestamp = 30
    /\ buildingData["b1"].energyData[2].timestamp = 51
    /\ buildingData["b1"].energyData[3].timestamp = 80
    /\ buildingData["b2"].registered

----------------------------------------------------------------------------
(* Specification SpecPipeline: the chain of calls an ingestion makes       *)
(* (server.js lines 80-87): detectAnomalies on the reading sequence, then  *)
(* generateRecommendations and calculateSavings on the list it returned.   *)

NextPipeline == Detect \/ Recommend \/ Savings

SpecPipeline == InitDetect /\ [][NextPipeline]_vars

AfterDetect == pc \in {"detected", "recommended", "done"} /\ dataGiven

\* C11: for a reading sequence of strictly positive consumptions, every
\* anomaly detectAnomalies emits has consumption > expected, and
\* calculateSavings on that list returns no negative energy, cost or carbon.
C11_DetectedExcessPositive ==
    (AfterDetect /\ AllPositive) =>
        /\ \A k \in 1..Len(anomalies) :
               /\ anomalies[k].expected.den > 0
               /\ anomalies[k].consumption * anomalies[k].expected.den
                      > anomalies[k].expected.num
        /\ pc = "done" =>
               (savings.energy >= 0 /\ savings.cost >= 0 /\ savings.carbon >= 0)

\* savings computed from a detected list holding a spike and a schedule
\* anomaly (whose expected value is an hourly mean)
C11_Witness ==
    /\ pc = "done"
    /\ dataGiven
    /\ AllPositive
    /\ \E j, k \in 1..Len(anomalies) :
           anomalies[j].type = "spike" /\ anomalies[k].type = "schedule"
    /\ savings.energy > 0

=============================================================================
